---- MODULE Spec2Model ----
(***************************************************************************)
(* Flow store / view / State facade of mitmproxy/addons/state.py.          *)
(*                                                                         *)
(* Flows are identity-bearing objects 1..NumFlows whose one               *)
(* filter-relevant field is the response marker.  FlowView objects live    *)
(* in a heap (a sequence indexed by object identity); the FlowStore holds  *)
(* the ordered list, the membership set and the list of registered views.  *)
(***************************************************************************)
EXTENDS Integers, Sequences, FiniteSets, TLC

\* Number of flow objects the environment can deliver.
NumFlows == 2
\* Number of FlowView objects that can be constructed in one run.
MaxViews == 3

Flows == 1..NumFlows
\* Python's None, as a filter text / return value.
None == "None"
\* Texts handed to set_view_filter: two parsable, one malformed, empty, absent.
ValidTexts == {"~s", "~q"}
Texts == ValidTexts \cup {"~bad", "", None}
InvalidFilter == "Invalid filter expression."
\* Stands for a call left by an exception instead of a return
Raised == "raised"

VARIABLES
    flows,      \* State.flows : the FlowStore  [list, set, views]
    heap,       \* the FlowView objects still referenced: identity -> [list, filter]
    nviews,     \* number of FlowView objects constructed so far
    view,       \* State.view : identity of the current FlowView
    response,   \* Flow.response marker of every flow object
    last,       \* the call that produced this state
    ret,        \* its return value
    killable,   \* Flow.killable of every flow object, as last read by kill_all
    invoked,    \* flows whose resume / kill the last batch call invoked, in order
    fan         \* a store call in progress: its steps done so far

vars == <<flows, heap, nviews, view, response, last, ret, killable, invoked, fan>>

----------------------------------------------------------------------------
\* Python list helpers

Range(s) == {s[i] : i \in 1..Len(s)}

\* item in list
InList(x, s) == \E i \in 1..Len(s) : s[i] = x

\* list.index(x), for x in the list
IndexOf(x, s) == CHOOSE i \in 1..Len(s) : s[i] = x /\ \A j \in 1..(i-1) : s[j] # x

\* list.remove(x): drops the first occurrence
ListRemove(s, x) ==
    LET i == IndexOf(x, s)
    IN  [j \in 1..(Len(s)-1) |-> IF j < i THEN s[j] ELSE s[j+1]]

NoDup(s) == \A i, j \in 1..Len(s) : s[i] = s[j] => i = j

\* All sequences without repetition over a set
RECURSIVE Perms(_)
Perms(S) == IF S = {} THEN {<<>>}
            ELSE UNION {{Append(p, x) : p \in Perms(S \ {x})} : x \in S}
DistinctSeqs(S) == UNION {Perms(T) : T \in SUBSET S}

----------------------------------------------------------------------------
\* Filter predicates

\* _pos: accepts everything, has no pattern attribute
Pos == [kind |-> "pos"]

\* Python's None where a predicate object is expected
NoFlt == [kind |-> "None"]

\* flowfilter.parse: a predicate carrying its text as .pattern, or None
parse(txt) == IF txt \in ValidTexts THEN [kind |-> "flt", pattern |-> txt] ELSE NoFlt

\* flt(f) on the flow objects of world w: ~s matches flows with a response,
\* ~q flows without one
Matches(w, flt, f) ==
    IF flt.kind = "pos" THEN TRUE
    ELSE IF flt.pattern = "~s" THEN w.response[f]
    ELSE ~w.response[f]

\* list(filter(flt, flows))
FilterList(w, flt, s) == SelectSeq(s, LAMBDA f : Matches(w, flt, f))

----------------------------------------------------------------------------
\* A world w = [flows, heap, nviews, response]: the store object, the view
\* objects, the count of views constructed and the flow objects' response
\* markers.
\* FlowView methods act on one view object v = [list, filter].

World == [flows |-> flows, heap |-> heap, nviews |-> nviews, response |-> response]

Registered(w) == Range(w.flows.views)

View_build(w, v, flowlist, flt) ==
    LET fl == IF flt # NoFlt THEN flt ELSE v.filter
    IN  [list |-> FilterList(w, fl, flowlist), filter |-> fl]

View_add(w, v, f) ==
    IF Matches(w, v.filter, f) THEN [v EXCEPT !.list = Append(@, f)] ELSE v

View_remove(w, v, f) ==
    IF InList(f, v.list) THEN [v EXCEPT !.list = ListRemove(@, f)] ELSE v

\* Faulty variant: a flow that still matches is moved to the end
View_update_Moves(w, v, f) ==
    IF ~InList(f, v.list) THEN View_add(w, v, f)
    ELSE IF ~Matches(w, v.filter, f) THEN View_remove(w, v, f)
    ELSE [v EXCEPT !.list = Append(ListRemove(@, f), f)]

\* Faulty variant: a flow that no longer matches is kept
View_update_NoRemove(w, v, f) ==
    IF ~InList(f, v.list) THEN View_add(w, v, f) ELSE v

View_update(w, v, f) ==
    IF ~InList(f, v.list) THEN View_add(w, v, f)
    ELSE IF ~Matches(w, v.filter, f) THEN View_remove(w, v, f)
    ELSE v

View_recalculate(w, v, flowlist) == View_build(w, v, flowlist, NoFlt)

\* FlowView.__init__: build from the store, then register; the new object
\* gets the next identity.
View_init(w, flt) ==
    LET fl == IF flt # NoFlt THEN flt ELSE Pos
        v  == View_build(w, [list |-> <<>>, filter |-> fl], w.flows.list, fl)
        id == w.nviews + 1
    IN  [w EXCEPT !.flows.views = Append(@, id),
                  !.heap = [x \in DOMAIN w.heap \cup {id} |->
                               IF x = id THEN v ELSE w.heap[x]],
                  !.nviews = id]

\* Faulty variant: the view stays in store.views
View_close_Leaks(w, v) == w

\* FlowView._close
View_close(w, v) == [w EXCEPT !.flows.views = ListRemove(@, v)]

\* Faulty variant: the loop reaches every view ever constructed, closed ones included
FanOut_All(w, called) == [w EXCEPT !.heap = called]

\* for view in self.views: view.<method>(...), where called[v] is view object
\* v after the method call
FanOut(w, called) ==
    [w EXCEPT !.heap = [v \in DOMAIN w.heap |->
                           IF v \in Registered(w) THEN called[v] ELSE w.heap[v]]]

Store_contains(w, f) == f \in w.flows.set

Store_recalculate_views(w) ==
    FanOut(w, [v \in DOMAIN w.heap |-> View_recalculate(w, w.heap[v], w.flows.list)])

\* Faulty variant: the flow is appended but never entered in the index
Store_add_NoIndex(w, f) ==
    LET w1 == [w EXCEPT !.flows.list = Append(@, f)]
    IN  FanOut(w1, [v \in DOMAIN w1.heap |-> View_add(w1, w1.heap[v], f)])

Store_add(w, f) ==
    LET w1 == [w EXCEPT !.flows.list = Append(@, f), !.flows.set = @ \cup {f}]
    IN  FanOut(w1, [v \in DOMAIN w1.heap |-> View_add(w1, w1.heap[v], f)])

\* Faulty variant: the membership test is missing
Store_update_NoGuard(w, f) == FanOut(w, [v \in DOMAIN w.heap |-> View_update(w, w.heap[v], f)])

Store_update(w, f) ==
    IF Store_contains(w, f) THEN FanOut(w, [v \in DOMAIN w.heap |-> View_update(w, w.heap[v], f)]) ELSE w

\* Faulty variant: the flow stays in the index
Store_remove_KeepsIndex(w, f) ==
    LET w1 == [w EXCEPT !.flows.list = ListRemove(@, f)]
    IN  FanOut(w1, [v \in DOMAIN w1.heap |-> View_remove(w1, w1.heap[v], f)])

Store_remove(w, f) ==
    LET w1 == [w EXCEPT !.flows.list = ListRemove(@, f), !.flows.set = @ \ {f}]
    IN  FanOut(w1, [v \in DOMAIN w1.heap |-> View_remove(w1, w1.heap[v], f)])

\* Faulty variant: the views are not recalculated
Store_extend_NoRebuild(w, batch) ==
    [w EXCEPT !.flows.list = @ \o batch, !.flows.set = @ \cup Range(batch)]

Store_extend(w, batch) ==
    LET w1 == [w EXCEPT !.flows.list = @ \o batch, !.flows.set = @ \cup Range(batch)]
    IN  Store_recalculate_views(w1)

\* Faulty variant: the views are not recalculated
Store_clear_NoRebuild(w) == [w EXCEPT !.flows.list = <<>>, !.flows.set = {}]

Store_clear(w) ==
    LET w1 == [w EXCEPT !.flows.list = <<>>, !.flows.set = {}]
    IN  Store_recalculate_views(w1)

----------------------------------------------------------------------------
\* State facade

\* State.filter_txt
filter_txt == IF "pattern" \in DOMAIN heap[view].filter
              THEN heap[view].filter.pattern ELSE None

\* The call being made: its name, its flow argument (0 when it has none), its
\* text argument, and the length of the store's list when it was made
Call(op, f, txt) == [op |-> op, f |-> f, txt |-> txt, was |-> Len(flows.list)]

\* no store call is in progress
Idle == [op |-> "idle", f |-> 0, at |-> "return", seen |-> <<>>]

Commit(w) == flows' = w.flows /\ heap' = w.heap /\ nviews' = w.nviews

\* self.view = FlowView(...): the superseded view loses its last reference
Unref(w, v) == [w EXCEPT !.heap = [x \in DOMAIN w.heap \ {v} |-> w.heap[x]]]

\* State.__init__
Init ==
    /\ response \in [Flows -> BOOLEAN]
    /\ LET w == View_init([flows |-> [list |-> <<>>, set |-> {}, views |-> <<>>],
                           heap |-> <<>>, nviews |-> 0, response |-> response], NoFlt)
       IN  flows = w.flows /\ heap = w.heap /\ nviews = w.nviews /\ view = w.nviews
    /\ last = [op |-> "init", f |-> 0, txt |-> None, was |-> 0]
    /\ ret = None
    /\ killable = [f \in Flows |-> FALSE]
    /\ invoked = <<>>
    /\ fan = Idle

\* State.add_flow(f), f not a member
add_flow(f) ==
    /\ ~Store_contains(World, f)
    /\ Commit(Store_add(World, f))
    /\ last' = Call("add_flow", f, None)
    /\ UNCHANGED <<killable, invoked, fan>>
    /\ ret' = None
    /\ UNCHANGED <<view, response>>

\* State.add_flow(f) by a caller that breaks the precondition: f is a member.
\* Nothing is tested or raised; the list is kept to NumFlows + 1 entries.
add_flow_again(f) ==
    /\ Store_contains(World, f)
    /\ Len(flows.list) <= NumFlows
    /\ Commit(Store_add(World, f))
    /\ last' = Call("add_flow_again", f, None)
    /\ UNCHANGED <<killable, invoked, fan>>
    /\ ret' = None
    /\ UNCHANGED <<view, response>>

\* State.update_flow(f), any flow, called by the proxy engine after it has
\* left f's response marker at r (a response arrived, a revert dropped it,
\* or the marker is as it was)
update_flow(f, r) ==
    /\ response' = [response EXCEPT ![f] = r]
    /\ Commit(Store_update([World EXCEPT !.response = response'], f))
    /\ last' = Call("update_flow", f, None)
    /\ UNCHANGED <<killable, invoked, fan>>
    /\ ret' = None
    /\ UNCHANGED view

\* State.delete_flow(f), f a member
delete_flow(f) ==
    /\ Store_contains(World, f)
    /\ Commit(Store_remove(World, f))
    /\ last' = Call("delete_flow", f, None)
    /\ UNCHANGED <<killable, invoked, fan>>
    /\ ret' = None
    /\ UNCHANGED <<view, response>>

\* State.load_flows(batch), a batch of distinct non-members
load_flows(batch) ==
    /\ Range(batch) \cap flows.set = {}
    /\ Commit(Store_extend(World, batch))
    /\ last' = Call("load_flows", 0, None)
    /\ UNCHANGED <<killable, invoked, fan>>
    /\ ret' = None
    /\ UNCHANGED <<view, response>>

\* State.clear()
clear ==
    /\ Commit(Store_clear(World))
    /\ last' = Call("clear", 0, None)
    /\ UNCHANGED <<killable, invoked, fan>>
    /\ ret' = None
    /\ UNCHANGED <<view, response>>

\* Faulty variant: the current view is closed before the text is parsed
set_view_filter_ClosesFirst(txt) ==
    /\ last' = Call("set_view_filter", 0, txt)
    /\ UNCHANGED <<killable, invoked, fan>>
    /\ UNCHANGED response
    /\ IF txt = filter_txt
       THEN ret' = None /\ UNCHANGED <<flows, heap, nviews, view>>
       ELSE IF txt # "" /\ txt # None
       THEN IF parse(txt) = NoFlt
            THEN /\ ret' = InvalidFilter
                 /\ Commit(View_close(World, view))
                 /\ UNCHANGED view
            ELSE /\ nviews < MaxViews
                 /\ Commit(Unref(View_init(View_close(World, view), parse(txt)), view))
                 /\ view' = nviews'
                 /\ ret' = None
       ELSE /\ nviews < MaxViews
            /\ Commit(Unref(View_init(View_close(World, view), NoFlt), view))
            /\ view' = nviews'
            /\ ret' = None

\* Faulty variant: empty or absent text leaves the current view in place
set_view_filter_IgnoresEmpty(txt) ==
    /\ last' = Call("set_view_filter", 0, txt)
    /\ UNCHANGED <<killable, invoked, fan>>
    /\ UNCHANGED response
    /\ IF txt = filter_txt
       THEN ret' = None /\ UNCHANGED <<flows, heap, nviews, view>>
       ELSE IF txt # "" /\ txt # None
       THEN IF parse(txt) = NoFlt
            THEN ret' = InvalidFilter /\ UNCHANGED <<flows, heap, nviews, view>>
            ELSE /\ nviews < MaxViews
                 /\ Commit(Unref(View_init(View_close(World, view), parse(txt)), view))
                 /\ view' = nviews'
                 /\ ret' = None
       ELSE ret' = None /\ UNCHANGED <<flows, heap, nviews, view>>

\* Faulty variant: a new filter starts from an emptied store
set_view_filter_NewStore(txt) ==
    /\ last' = Call("set_view_filter", 0, txt)
    /\ UNCHANGED <<killable, invoked, fan>>
    /\ UNCHANGED response
    /\ IF txt = filter_txt
       THEN ret' = None /\ UNCHANGED <<flows, heap, nviews, view>>
       ELSE IF txt # "" /\ txt # None
       THEN IF parse(txt) = NoFlt
            THEN ret' = InvalidFilter /\ UNCHANGED <<flows, heap, nviews, view>>
            ELSE /\ nviews < MaxViews
                 /\ Commit(Unref(View_init(View_close(Store_clear(World), view),
                                           parse(txt)), view))
                 /\ view' = nviews'
                 /\ ret' = None
       ELSE /\ nviews < MaxViews
            /\ Commit(Unref(View_init(View_close(World, view), NoFlt), view))
            /\ view' = nviews'
            /\ ret' = None

\* State.set_view_filter(txt)
set_view_filter(txt) ==
    /\ last' = Call("set_view_filter", 0, txt)
    /\ UNCHANGED <<killable, invoked, fan>>
    /\ UNCHANGED response
    /\ IF txt = filter_txt
       THEN ret' = None /\ UNCHANGED <<flows, heap, nviews, view>>
       ELSE IF txt # "" /\ txt # None
       THEN IF parse(txt) = NoFlt
            THEN ret' = InvalidFilter /\ UNCHANGED <<flows, heap, nviews, view>>
            ELSE /\ nviews < MaxViews
                 /\ Commit(Unref(View_init(View_close(World, view), parse(txt)), view))
                 /\ view' = nviews'
                 /\ ret' = None
       ELSE /\ nviews < MaxViews
            /\ Commit(Unref(View_init(View_close(World, view), NoFlt), view))
            /\ view' = nviews'
            /\ ret' = None

\* cv = FlowView(store, flt) by the one other consumer of the store (a UI
\* pane holding one view of its own); a closed view it still held loses its
\* last reference
NewView(flt) ==
    /\ nviews < MaxViews
    /\ Registered(World) = {view}
    /\ LET w == View_init(World, flt)
       IN  Commit([w EXCEPT !.heap = [x \in {view, w.nviews} |-> w.heap[x]]])
    /\ last' = Call("FlowView", 0, None)
    /\ UNCHANGED <<killable, invoked, fan>>
    /\ ret' = None
    /\ UNCHANGED <<view, response>>

\* view._close() by that consumer, on a registered view it owns
CloseView(v) ==
    /\ v # view
    /\ InList(v, flows.views)
    /\ Commit(View_close(World, v))
    /\ last' = Call("_close", 0, None)
    /\ UNCHANGED <<killable, invoked, fan>>
    /\ ret' = None
    /\ UNCHANGED <<view, response>>

\* State.duplicate_flow(f): f.copy() is a new flow object f2 with f's fields
duplicate_flow(f, f2) ==
    /\ f2 # f
    /\ ~Store_contains(World, f2)
    /\ response' = [response EXCEPT ![f2] = response[f]]
    /\ Commit(Store_add([World EXCEPT !.response = response'], f2))
    /\ last' = Call("duplicate_flow", f2, None)
    /\ UNCHANGED <<killable, invoked, fan>>
    /\ ret' = None
    /\ UNCHANGED view

\* Faulty variant: the flow is added whether or not the store has it
request_NoGuard(f) ==
    /\ Commit(Store_add(World, f))
    /\ last' = Call("request", f, None)
    /\ UNCHANGED <<killable, invoked, fan>>
    /\ ret' = None
    /\ UNCHANGED <<view, response>>

\* State.request(f)
request(f) ==
    /\ IF ~Store_contains(World, f)
       THEN Commit(Store_add(World, f))
       ELSE UNCHANGED <<flows, heap, nviews>>
    /\ last' = Call("request", f, None)
    /\ UNCHANGED <<killable, invoked, fan>>
    /\ ret' = None
    /\ UNCHANGED <<view, response>>

\* State.response(f): the engine has attached the response to f
response_(f) ==
    /\ response' = [response EXCEPT ![f] = TRUE]
    /\ Commit(Store_update([World EXCEPT !.response = response'], f))
    /\ last' = Call("response", f, None)
    /\ UNCHANGED <<killable, invoked, fan>>
    /\ ret' = None
    /\ UNCHANGED view

\* State.error(f)
error(f) ==
    /\ Commit(Store_update(World, f))
    /\ last' = Call("error", f, None)
    /\ UNCHANGED <<killable, invoked, fan>>
    /\ ret' = None
    /\ UNCHANGED <<view, response>>

\* State.intercept(f)
intercept(f) ==
    /\ Commit(Store_update(World, f))
    /\ last' = Call("intercept", f, None)
    /\ UNCHANGED <<killable, invoked, fan>>
    /\ ret' = None
    /\ UNCHANGED <<view, response>>

\* State.resume(f)
resume(f) ==
    /\ Commit(Store_update(World, f))
    /\ last' = Call("resume", f, None)
    /\ UNCHANGED <<killable, invoked, fan>>
    /\ ret' = None
    /\ UNCHANGED <<view, response>>

\* for f in list: f.<operation>(master), where the operation raises for the
\* flows in fails: the flows it was invoked on. The first exception leaves
\* the loop.
RunBatch(list, fails) ==
    IF \E i \in 1..Len(list) : list[i] \in fails
    THEN SubSeq(list, 1, CHOOSE i \in 1..Len(list) :
                            list[i] \in fails /\ \A j \in 1..(i-1) : list[j] \notin fails)
    ELSE list

\* State.accept_all(master), with resume raising for the flows in fails
accept_all(fails) ==
    /\ invoked' = RunBatch(flows.list, fails)
    /\ ret' = IF Range(flows.list) \cap fails # {} THEN Raised ELSE None
    /\ last' = Call("accept_all", 0, None)
    /\ UNCHANGED <<flows, heap, nviews, view, response, killable, fan>>

\* State.killall(master), with the flows' killable flags at k and kill raising
\* for the flows in fails
killall(k, fails) ==
    /\ killable' = k
    /\ LET killed == SelectSeq(flows.list, LAMBDA f : k[f])
       IN  /\ invoked' = RunBatch(killed, fails)
           /\ ret' = IF Range(killed) \cap fails # {} THEN Raised ELSE None
    /\ last' = Call("killall", 0, None)
    /\ UNCHANGED <<flows, heap, nviews, view, response, fan>>

----------------------------------------------------------------------------
\* FlowStore._add / _update / _remove statement by statement. fan.at is the
\* statement the call has reached ("set": the index update, "views": the loop
\* over self.views, "end": past the loop, "return": no call in progress) and
\* fan.seen lists the views the loop has called so far. A reader in another
\* thread may look at the store and the views between any two steps.

InCall == fan.at # "return"

\* Faulty variant: the loop walks self.views from the back
NextView_Reversed == flows.views[Len(flows.views) - Len(fan.seen)]

\* for view in self.views: the view the loop calls next
NextView == flows.views[Len(fan.seen) + 1]

\* _add, line 109: self._list.append(f), f not a member
Start_add(f) ==
    /\ ~InCall
    /\ ~Store_contains(World, f)
    /\ flows' = [flows EXCEPT !.list = Append(@, f)]
    /\ fan' = [op |-> "_add", f |-> f, at |-> "set", seen |-> <<>>]
    /\ UNCHANGED <<heap, nviews, view, response, last, ret, killable, invoked>>

\* _remove, line 128: self._list.remove(f), f a member
Start_remove(f) ==
    /\ ~InCall
    /\ Store_contains(World, f)
    /\ flows' = [flows EXCEPT !.list = ListRemove(@, f)]
    /\ fan' = [op |-> "_remove", f |-> f, at |-> "set", seen |-> <<>>]
    /\ UNCHANGED <<heap, nviews, view, response, last, ret, killable, invoked>>

\* _update, line 119: if f in self, after the engine left f's response at r
Start_update(f, r) ==
    /\ ~InCall
    /\ response' = [response EXCEPT ![f] = r]
    /\ fan' = [op |-> "_update", f |-> f, seen |-> <<>>,
               at |-> IF Store_contains(World, f) THEN "views" ELSE "end"]
    /\ UNCHANGED <<flows, heap, nviews, view, last, ret, killable, invoked>>

\* lines 110 and 129: self._set.add(f) / self._set.remove(f)
StepIndex ==
    /\ fan.at = "set"
    /\ flows' = [flows EXCEPT !.set = IF fan.op = "_add" THEN @ \cup {fan.f}
                                                        ELSE @ \ {fan.f}]
    /\ fan' = [fan EXCEPT !.at = "views"]
    /\ UNCHANGED <<heap, nviews, view, response, last, ret, killable, invoked>>

\* one turn of the loop: view._add(f) / view._update(f) / view._remove(f)
StepView ==
    /\ fan.at = "views"
    /\ Len(fan.seen) < Len(flows.views)
    /\ LET v == NextView
       IN  /\ heap' = [heap EXCEPT ![v] =
                          IF fan.op = "_add" THEN View_add(World, @, fan.f)
                          ELSE IF fan.op = "_update" THEN View_update(World, @, fan.f)
                          ELSE View_remove(World, @, fan.f)]
           /\ fan' = [fan EXCEPT !.seen = Append(@, v)]
    /\ UNCHANGED <<flows, nviews, view, response, last, ret, killable, invoked>>

\* the loop is over, or was never entered: the call returns
Return ==
    /\ \/ fan.at = "end"
       \/ fan.at = "views" /\ Len(fan.seen) = Len(flows.views)
    /\ fan' = [fan EXCEPT !.at = "return"]
    /\ last' = Call(fan.op, fan.f, None)
    /\ ret' = None
    /\ UNCHANGED <<flows, heap, nviews, view, response, killable, invoked>>

\* The State facade, driven by the proxy engine and the operator
Next ==
    \/ \E f \in Flows : add_flow(f)
    \/ \E f \in Flows, r \in BOOLEAN : update_flow(f, r)
    \/ \E f \in Flows : delete_flow(f)
    \/ \E batch \in DistinctSeqs(Flows) : load_flows(batch)
    \/ clear
    \/ \E txt \in Texts : set_view_filter(txt)
    \/ \E f, f2 \in Flows : duplicate_flow(f, f2)
    \/ \E f \in Flows : request(f)
    \/ \E f \in Flows : response_(f)
    \/ \E f \in Flows : error(f)
    \/ \E f \in Flows : intercept(f)
    \/ \E f \in Flows : resume(f)

Spec == Init /\ [][Next]_vars

\* The store under a fixed State view, with a second consumer registering and
\* closing views of its own
StoreNext ==
    \/ \E f \in Flows : add_flow(f)
    \/ \E f \in Flows, r \in BOOLEAN : update_flow(f, r)
    \/ \E f \in Flows : delete_flow(f)
    \/ \E batch \in DistinctSeqs(Flows) : load_flows(batch)
    \/ clear
    \/ \E flt \in {NoFlt} \cup {parse(t) : t \in ValidTexts} : NewView(flt)
    \/ \E v \in 1..MaxViews : CloseView(v)

StoreSpec == Init /\ [][StoreNext]_vars

\* The operator's batch actions on a store that fills and changes filter
BatchNext ==
    \/ \E f \in Flows : add_flow(f)
    \/ \E f \in Flows : delete_flow(f)
    \/ \E txt \in Texts : set_view_filter(txt)
    \/ \E fails \in SUBSET Flows : accept_all(fails)
    \/ \E k \in [Flows -> BOOLEAN], fails \in SUBSET Flows : killall(k, fails)

BatchSpec == Init /\ [][BatchNext]_vars

\* The store under callers that may add a flow it already has
MisuseNext ==
    \/ \E f \in Flows : Len(flows.list) <= NumFlows /\ add_flow(f)
    \/ \E f \in Flows : add_flow_again(f)
    \/ \E f \in Flows, r \in BOOLEAN : update_flow(f, r)
    \/ \E f \in Flows : delete_flow(f)

MisuseSpec == Init /\ [][MisuseNext]_vars

\* The store's calls step by step, with a second consumer's view registered
\* between calls
FineNext ==
    \/ \E f \in Flows : Start_add(f)
    \/ \E f \in Flows : Start_remove(f)
    \/ \E f \in Flows, r \in BOOLEAN : Start_update(f, r)
    \/ StepIndex
    \/ StepView
    \/ Return
    \/ \E flt \in {NoFlt} \cup {parse(t) : t \in ValidTexts} : ~InCall /\ NewView(flt)

FineSpec == Init /\ [][FineNext]_vars

----------------------------------------------------------------------------
\* Shorthands for the properties

StoreOps == {"add_flow", "update_flow", "delete_flow", "load_flows", "clear"}

\* what a view with v's predicate shows of the store's list, in store order
Projection(v) == FilterList(World, heap[v].filter, flows.list)

\* views constructed and closed, still held by their consumer
Closed == DOMAIN heap \ Registered(World)

\* add called once per flow of the batch, in batch order
RECURSIVE AddEach(_, _)
AddEach(w, batch) ==
    IF batch = <<>> THEN w ELSE AddEach(Store_add(w, Head(batch)), Tail(batch))

\* a store that holds nothing, with its registered views empty
Fresh == flows.list = <<>> /\ flows.set = {} /\ \A v \in Registered(World) : heap[v].list = <<>>

----------------------------------------------------------------------------
\* C1: after every store operation every registered view holds exactly the
\* flows of the store's list that satisfy its predicate, in the order of the
\* store's list.
C1_ViewsAreOrderedProjections ==
    \A v \in Registered(World) : heap[v].list = Projection(v)

\* C2: the set of flows in the store's list equals the identity index, and the
\* list holds no flow twice.
C2_ListIndexCongruent ==
    Range(flows.list) = flows.set /\ NoDup(flows.list)

C2_Witness ==
    /\ last.op = "delete_flow"
    /\ last.was = NumFlows
    /\ flows.list # <<>>

\* C3: right after add(f) contains(f) is true, right after remove(f) it is
\* false.
C3_ContainsAfterAddRemove ==
    /\ last.op = "add_flow" => Store_contains(World, last.f)
    /\ last.op = "delete_flow" => ~Store_contains(World, last.f)

C3_Witness ==
    /\ last.op = "add_flow"
    /\ last.was > 0
    /\ Store_contains(World, last.f)

\* C4: on a fresh store, extend(batch) leaves the same store list, index and
\* view projections as add called once per flow of the batch, in batch order.
C4_ExtendEqualsAdds ==
    [][\A batch \in DistinctSeqs(Flows) :
          (Fresh /\ load_flows(batch)) =>
              LET w == AddEach(World, batch)
              IN  flows' = w.flows /\ heap' = w.heap]_vars

C4_Witness ==
    /\ last.op = "load_flows"
    /\ last.was = 0
    /\ Len(flows.list) = NumFlows
    /\ \E v \in Registered(World) :
          heap[v].filter # Pos /\ heap[v].list # <<>> /\ heap[v].list # flows.list

\* C5: after clear() the store's list and index are empty and so is every
\* registered view.
C5_ClearEmptiesAll ==
    last.op = "clear" =>
        /\ flows.list = <<>>
        /\ flows.set = {}
        /\ \A v \in Registered(World) : heap[v].list = <<>>

C5_Witness ==
    /\ last.op = "clear"
    /\ last.was = NumFlows
    /\ Cardinality(Registered(World)) = 2

\* C6: set_view_filter(t) called again with the same t (parsable, empty or
\* absent) is a no-op: same current view object, same content, same list of
\* registered views.
C6_SetFilterTwiceIsNoop ==
    [][\A t \in ValidTexts \cup {"", None} :
          (last.op = "set_view_filter" /\ last.txt = t /\ set_view_filter(t)) =>
              UNCHANGED <<view, heap, flows>>]_vars

\* C7: set_view_filter with non-empty text the parser rejects returns
\* "Invalid filter expression." and changes neither the current view, its
\* predicate, text and content, nor the registered views, nor the store.
C7_InvalidFilterMutatesNothing ==
    [][\A t \in Texts :
          (t # "" /\ t # None /\ parse(t) = NoFlt /\ set_view_filter(t)) =>
              /\ ret' = InvalidFilter
              /\ UNCHANGED <<flows, heap, nviews, view, response>>
              /\ filter_txt' = filter_txt]_vars

C7_Witness ==
    /\ last.op = "set_view_filter"
    /\ ret = InvalidFilter
    /\ filter_txt # None
    /\ heap[view].list # <<>>
    /\ heap[view].list # flows.list

\* C8: after set_view_filter with empty or absent text the current view's
\* content is the full store list, in store order, and filter_txt is None.
C8_EmptyFilterShowsAll ==
    (last.op = "set_view_filter" /\ last.txt \in {"", None}) =>
        heap[view].list = flows.list /\ filter_txt = None

C8_Witness ==
    /\ last.op = "set_view_filter"
    /\ last.txt = ""
    /\ nviews = 3
    /\ Len(flows.list) = NumFlows
    /\ \E f, g \in flows.set : response[f] /\ ~response[g]

\* C9: update of a flow that is not a member changes neither the store's list
\* and index nor any view, even when the flow satisfies a view's predicate.
C9_UpdateOfNonMemberIsNoop ==
    [][\A f \in Flows, r \in BOOLEAN :
          (~Store_contains(World, f) /\ update_flow(f, r)) =>
              UNCHANGED <<flows, heap>>]_vars

C9_Witness ==
    /\ last.op = "update_flow"
    /\ ~Store_contains(World, last.f)
    /\ \E v \in Registered(World) :
          heap[v].filter # Pos /\ Matches(World, heap[v].filter, last.f)

\* C10: a closed view is not in the store's list of views and no later
\* operation changes its projection.
C10_ClosedViewFrozen ==
    [][\A v \in Closed :
          v \in DOMAIN heap' => (heap'[v] = heap[v] /\ v \notin Registered(World)')]_vars

C10_Witness ==
    /\ last.op \in StoreOps
    /\ \E v \in Closed : heap[v].list # Projection(v)

\* C11: request(f) adds f only when the store does not have it; whatever
\* lifecycle events arrive, replayed requests included, the store's list and
\* every view hold each flow at most once.
C11_RequestNeverDuplicates ==
    /\ NoDup(flows.list)
    /\ \A v \in Registered(World) : NoDup(heap[v].list)
    /\ last.op = "request" =>
           /\ Store_contains(World, last.f)
           /\ Len(flows.list) \in {last.was, last.was + 1}

C11_Witness ==
    /\ last.op = "request"
    /\ Len(flows.list) = last.was
    /\ InList(last.f, flows.list)
    /\ InList(last.f, heap[view].list)

\* C12: in accept_all and killall a failure of one flow's resume or kill does
\* not stop the batch: the operation is invoked on every flow of the store
\* (every killable one, for killall).
C12_BatchSurvivesFailure ==
    /\ last.op = "accept_all" => Range(flows.list) \subseteq Range(invoked)
    /\ last.op = "killall" =>
           {f \in Range(flows.list) : killable[f]} \subseteq Range(invoked)

\* C13: add of a flow that is already a member fails loudly, and neither the
\* store's list nor a view gains a second occurrence of it.
C13_DuplicateAddFailsLoudly ==
    last.op = "add_flow_again" =>
        /\ ret = Raised
        /\ NoDup(flows.list)
        /\ \A v \in Registered(World) : NoDup(heap[v].list)

\* C14: killall invokes kill on exactly the killable flows of the full store,
\* once each, in store order, whatever the current view's filter.
C14_KillallKillsTheKillable ==
    last.op = "killall" =>
        invoked = SelectSeq(flows.list, LAMBDA f : killable[f])

\* C15: set_view_filter, whatever its text, leaves the store's list of
\* flows and its index as they were.
C15_SetFilterKeepsStore ==
    [][\A t \in Texts :
          set_view_filter(t) =>
              flows'.list = flows.list /\ flows'.set = flows.set]_vars

C15_Witness ==
    /\ last.op = "set_view_filter"
    /\ last.txt \in ValidTexts
    /\ filter_txt = last.txt
    /\ view > 1
    /\ Len(flows.list) = NumFlows
    /\ heap[view].list # flows.list

\* C16: a reader in another thread, whenever it looks, finds every registered
\* view showing the flows of the store's list that satisfy its predicate:
\* never a list that has a change some view has not.
C16_ReaderSeesConsistentSnapshot ==
    \A v \in Registered(World) :
        Range(heap[v].list) = {f \in Range(flows.list) : Matches(World, heap[v].filter, f)}

\* a store call has just returned
Returned == fan.op # "idle" /\ fan.at = "return" /\ last.op = fan.op

\* the store's own list and index have the call's change
StoreChanged ==
    /\ fan.op = "_add" => InList(fan.f, flows.list) /\ fan.f \in flows.set
    /\ fan.op = "_remove" => ~InList(fan.f, flows.list) /\ fan.f \notin flows.set

\* C18 as stated: in each _add, _remove and _update the store's list and index
\* change first, then every registered view is called exactly once, in
\* registration order, and the call returns only after that.
C18_FanOutReachesEveryView ==
    /\ (InCall /\ fan.at # "set") => StoreChanged
    /\ fan.at = "set" => fan.seen = <<>>
    /\ InCall => fan.seen = SubSeq(flows.views, 1, Len(fan.seen))
    /\ Returned => fan.seen = flows.views

\* C18 amended: as above for _add, _remove and _update of a member; _update
\* of a flow that is not a member calls no view.
C18_FanOutReachesEveryViewOfMember ==
    /\ (InCall /\ fan.at # "set") => StoreChanged
    /\ fan.at = "set" => fan.seen = <<>>
    /\ InCall => fan.seen = SubSeq(flows.views, 1, Len(fan.seen))
    /\ Returned =>
           IF fan.op = "_update" /\ ~Store_contains(World, fan.f)
           THEN fan.seen = <<>>
           ELSE fan.seen = flows.views /\ StoreChanged

C18_Witness ==
    /\ Returned
    /\ fan.op = "_remove"
    /\ Len(fan.seen) = 2
    /\ flows.list # <<>>

\* C17: update of a flow that a view holds and that still satisfies the view's
\* predicate leaves that view's list as it was.
C17_UpdateKeepsMatchingInPlace ==
    [][\A f \in Flows, r \in BOOLEAN :
          update_flow(f, r) =>
              \A v \in Registered(World) :
                  (InList(f, heap[v].list) /\ Matches(World', heap[v].filter, f))
                      => heap'[v].list = heap[v].list]_vars

C17_Witness ==
    /\ last.op = "update_flow"
    /\ \E v \in Registered(World) :
          /\ heap[v].filter # Pos
          /\ Len(heap[v].list) = NumFlows
          /\ heap[v].list[1] = last.f

\* C19: under the facade the store's list of views holds exactly one view,
\* the State's current view.
C19_OneRegisteredView ==
    flows.views = <<view>>

C19_Witness ==
    /\ last.op \in {"request", "response", "delete_flow", "load_flows", "clear"}
    /\ nviews = MaxViews
    /\ view = nviews
    /\ filter_txt # None

\* C20: each registered view, as a set, is the set of store members that
\* satisfy its predicate, and holds no flow twice and no non-member.
C20_ViewsAreFilteredSets ==
    \A v \in Registered(World) :
        /\ Range(heap[v].list) = {f \in flows.set : Matches(World, heap[v].filter, f)}
        /\ NoDup(heap[v].list)
        /\ Range(heap[v].list) \subseteq flows.set

C20_Witness ==
    /\ last.op = "update_flow"
    /\ \E v \in Registered(World) :
          /\ heap[v].filter # Pos
          /\ Len(heap[v].list) = NumFlows
          /\ heap[v].list # Projection(v)

TypeOK ==
    /\ flows.set \subseteq Flows
    /\ view \in DOMAIN heap
    /\ nviews <= MaxViews
====
